---- MODULE Spec2Model ----
(***************************************************************************)
(* Model of the solution-counting Sudoku solver (src/src/sudoku_solver.cpp) *)
(* A board is the flat row-major vector<int>; cell pos of the code is       *)
(* element pos+1 of the TLA+ sequence.  A uint32_t mask is the set of its   *)
(* set bit positions (a subset of 0..31): |= is union, &= ~ is difference.  *)
(***************************************************************************)
EXTENDS Integers, Sequences, FiniteSets, TLC

\* ---------------------------------------------------------------- bounds
MaxThreads == 2
MaxDepth == 2
MaxDuration == 1
\* solves are explored on boards with at most this many empty cells (the
\* search on the empty 36 x 36 grid does not return within any horizon)
MaxEmpty == 16

\* ------------------------------------------------------ program constants
MaxMaskValue == 31

\* static_cast<int>(sqrt(N))
ISqrt(n) == CHOOSE s \in 0..n : s * s <= n /\ (s + 1) * (s + 1) > n

getIndex(n, row, col) == row * n + col

blockIdxOf(bs, row, col) == (row \div bs) * bs + (col \div bs)

\* ------------------------------------------------------------ BitMaskState
BitMaskState(n) ==
  [rowMask   |-> [i \in 0..(n - 1) |-> {}],
   colMask   |-> [i \in 0..(n - 1) |-> {}],
   blockMask |-> [i \in 0..(n - 1) |-> {}]]

\* set with the upper limit of the guard missing: the shift count wraps
setUnguardedAbove(n, bs, st, row, col, value) ==
  IF value < 1 THEN st
  ELSE LET blockIdx == blockIdxOf(bs, row, col)
           bit == value % (MaxMaskValue + 1)
       IN [st EXCEPT !.rowMask[row] = @ \cup {bit},
                     !.colMask[col] = @ \cup {bit},
                     !.blockMask[blockIdx] = @ \cup {bit}]

set(n, bs, st, row, col, value) ==
  IF value < 1 \/ value > MaxMaskValue THEN st
  ELSE LET blockIdx == blockIdxOf(bs, row, col)
       IN [st EXCEPT !.rowMask[row] = @ \cup {value},
                     !.colMask[col] = @ \cup {value},
                     !.blockMask[blockIdx] = @ \cup {value}]

\* unset that clears the row mask only
unsetRowOnly(n, bs, st, row, col, value) ==
  IF value < 1 \/ value > MaxMaskValue THEN st
  ELSE [st EXCEPT !.rowMask[row] = @ \ {value}]

unset(n, bs, st, row, col, value) ==
  IF value < 1 \/ value > MaxMaskValue THEN st
  ELSE LET blockIdx == blockIdxOf(bs, row, col)
       IN [st EXCEPT !.rowMask[row] = @ \ {value},
                     !.colMask[col] = @ \ {value},
                     !.blockMask[blockIdx] = @ \ {value}]

canPlace(n, bs, st, row, col, value) ==
  IF value < 1 \/ value > MaxMaskValue THEN FALSE
  ELSE LET blockIdx == blockIdxOf(bs, row, col)
       IN /\ value \notin st.rowMask[row]
          /\ value \notin st.colMask[col]
          /\ value \notin st.blockMask[blockIdx]

\* ------------------------------------------------- linear-scan validation
isInRow(n, b, row, value) ==
  \E col \in 0..(n - 1) : b[getIndex(n, row, col) + 1] = value

isInCol(n, b, col, value) ==
  \E row \in 0..(n - 1) : b[getIndex(n, row, col) + 1] = value

\* the block scan with the block's origin left at (0,0)
isInBlockAtOrigin(n, bs, b, row, col, value) ==
  \E r \in 0..(bs - 1) : \E c \in 0..(bs - 1) : b[getIndex(n, r, c) + 1] = value

isInBlock(n, bs, b, row, col, value) ==
  LET blockRow == (row \div bs) * bs
      blockCol == (col \div bs) * bs
  IN \E r \in blockRow..(blockRow + bs - 1) :
       \E c \in blockCol..(blockCol + bs - 1) : b[getIndex(n, r, c) + 1] = value

isValid(n, bs, b, row, col, value) ==
  /\ ~isInRow(n, b, row, value)
  /\ ~isInCol(n, b, col, value)
  /\ ~isInBlock(n, bs, b, row, col, value)

isValidWithBoard(n, bs, boardRef, row, col, value) ==
  /\ \A c \in 0..(n - 1) : boardRef[row * n + c + 1] # value
  /\ \A r \in 0..(n - 1) : boardRef[r * n + col + 1] # value
  /\ LET blockRow == (row \div bs) * bs
         blockCol == (col \div bs) * bs
     IN \A r \in blockRow..(blockRow + bs - 1) :
          \A c \in blockCol..(blockCol + bs - 1) : boardRef[r * n + c + 1] # value

getPossibleValues(n, bs, b, row, col) ==
  {value \in 1..n : isValid(n, bs, b, row, col, value)}

\* ------------------------------------------------ sequential search engine
\* "Skip already filled cells": the calls search(pos) -> search(pos + 1) on
\* filled cells end at the first empty position at or after pos, or at n * n.
\* the scan with the skip of filled cells missing
skipFilledMissing(n, b, pos) == IF pos >= n * n THEN n * n ELSE pos

skipFilled(n, b, pos) ==
  LET empties == {p \in pos..(n * n - 1) : b[p + 1] = 0}
  IN IF empties = {} THEN n * n
     ELSE CHOOSE p \in empties : \A q \in empties : p <= q

\* A search returns the solution count, the board as the call leaves it, and
\* the number of candidate values it tested (tried) and wrote (placed).
RECURSIVE backtrackSingleThread(_, _, _, _)
RECURSIVE backtrackSingleThreadLoop(_, _, _, _, _)

backtrackSingleThreadLoop(n, bs, b, pos, value) ==
  IF value > n THEN [count |-> 0, board |-> b, tried |-> 0, placed |-> 0]
  ELSE IF isValid(n, bs, b, pos \div n, pos % n, value)
       THEN LET sub == backtrackSingleThread(n, bs, [b EXCEPT ![pos + 1] = value], pos + 1)
                rest == backtrackSingleThreadLoop(n, bs, [sub.board EXCEPT ![pos + 1] = 0],
                                                  pos, value + 1)
            IN [count  |-> sub.count + rest.count,
                board  |-> rest.board,
                tried  |-> 1 + sub.tried + rest.tried,
                placed |-> 1 + sub.placed + rest.placed]
       ELSE LET rest == backtrackSingleThreadLoop(n, bs, b, pos, value + 1)
            IN [rest EXCEPT !.tried = @ + 1]

backtrackSingleThread(n, bs, b, pos) ==
  LET p == skipFilled(n, b, pos)
  IN IF p = n * n THEN [count |-> 1, board |-> b, tried |-> 0, placed |-> 0]
     ELSE backtrackSingleThreadLoop(n, bs, b, p, 1)

\* Solve from a given state: the board is a const reference, every placement
\* goes to a fresh copy (boardCopy) handed to the recursive call.
RECURSIVE solveFromState(_, _, _, _)
RECURSIVE solveFromStateLoop(_, _, _, _, _)

solveFromStateLoop(n, bs, boardRef, pos, value) ==
  IF value > n THEN [count |-> 0, tried |-> 0, placed |-> 0]
  ELSE LET rest == solveFromStateLoop(n, bs, boardRef, pos, value + 1)
       IN IF isValidWithBoard(n, bs, boardRef, pos \div n, pos % n, value)
          THEN LET boardCopy == [boardRef EXCEPT ![getIndex(n, pos \div n, pos % n) + 1] = value]
                   sub == solveFromState(n, bs, boardCopy, pos + 1)
               IN [count  |-> sub.count + rest.count,
                   tried  |-> 1 + sub.tried + rest.tried,
                   placed |-> 1 + sub.placed + rest.placed]
          ELSE [rest EXCEPT !.tried = @ + 1]

solveFromState(n, bs, boardRef, pos) ==
  LET p == skipFilled(n, boardRef, pos)
  IN IF p = n * n THEN [count |-> 1, tried |-> 0, placed |-> 0]
     ELSE solveFromStateLoop(n, bs, boardRef, p, 1)

\* Bitmask search on a grid and tracker passed by reference: both are
\* returned as the call leaves them.
RECURSIVE backtrackWithBitmask(_, _, _, _, _)
RECURSIVE backtrackWithBitmaskLoop(_, _, _, _, _, _)

backtrackWithBitmaskLoop(n, bs, boardRef, state, pos, value) ==
  IF value > n
  THEN [count |-> 0, board |-> boardRef, state |-> state, tried |-> 0, placed |-> 0]
  ELSE LET row == pos \div n
           col == pos % n
       IN IF canPlace(n, bs, state, row, col, value)
          THEN LET sub == backtrackWithBitmask(n, bs,
                            [boardRef EXCEPT ![getIndex(n, row, col) + 1] = value],
                            set(n, bs, state, row, col, value), pos + 1)
                   rest == backtrackWithBitmaskLoop(n, bs,
                            [sub.board EXCEPT ![getIndex(n, row, col) + 1] = 0],
                            unset(n, bs, sub.state, row, col, value), pos, value + 1)
               IN [count  |-> sub.count + rest.count,
                   board  |-> rest.board,
                   state  |-> rest.state,
                   tried  |-> 1 + sub.tried + rest.tried,
                   placed |-> 1 + sub.placed + rest.placed]
          ELSE LET rest == backtrackWithBitmaskLoop(n, bs, boardRef, state, pos, value + 1)
               IN [rest EXCEPT !.tried = @ + 1]

backtrackWithBitmask(n, bs, boardRef, state, pos) ==
  LET p == skipFilled(n, boardRef, pos)
  IN IF p = n * n
     THEN [count |-> 1, board |-> boardRef, state |-> state, tried |-> 0, placed |-> 0]
     ELSE backtrackWithBitmaskLoop(n, bs, boardRef, state, p, 1)

\* boardCopy and stateCopy are copies of the const subproblem
solveSubproblem(n, bs, subproblem) ==
  LET boardCopy == subproblem.board
      stateCopy == subproblem.state
  IN backtrackWithBitmask(n, bs, boardCopy, stateCopy, subproblem.startPos)

\* ---------------------------------------------------- subproblem generator
Subproblem(n) == [board |-> <<>>, state |-> BitMaskState(n), startPos |-> 0]

\* a cursor that steps over the cell after the one just filled
nextStartPosBeyond(pos) == pos + 2

\* next.startPos = pos + 1: the scan resumes right after the filled cell
nextStartPos(pos) == pos + 1

RECURSIVE generateSubproblemsRecursive(_, _, _, _, _, _)
RECURSIVE generateSubproblemsLoop(_, _, _, _, _, _, _, _)

\* the for loop over value = 1..N at position pos; the results list and the
\* numbers of canPlace tests and of writes to a clone are threaded through
generateSubproblemsLoop(n, bs, current, pos, value, depth, maxDepth, acc) ==
  IF value > n THEN acc
  ELSE LET row == pos \div n
           col == pos % n
       IN IF canPlace(n, bs, current.state, row, col, value)
          THEN LET next == [board    |-> [current.board EXCEPT ![pos + 1] = value],
                            state    |-> set(n, bs, current.state, row, col, value),
                            startPos |-> nextStartPos(pos)]
                   sub == generateSubproblemsRecursive(n, bs, next, depth + 1, maxDepth,
                                [acc EXCEPT !.tried = @ + 1, !.placed = @ + 1])
               IN generateSubproblemsLoop(n, bs, current, pos, value + 1, depth, maxDepth, sub)
          ELSE generateSubproblemsLoop(n, bs, current, pos, value + 1, depth, maxDepth,
                                       [acc EXCEPT !.tried = @ + 1])

generateSubproblemsRecursive(n, bs, current, depth, maxDepth, acc) ==
  IF depth = maxDepth THEN [acc EXCEPT !.results = Append(@, current)]
  ELSE LET pos == skipFilled(n, current.board, current.startPos)
       IN IF pos >= n * n THEN [acc EXCEPT !.results = Append(@, current)]
          ELSE generateSubproblemsLoop(n, bs, current, pos, 1, depth, maxDepth, acc)

\* "Initialize bitmask with existing values": the nested row/col loops, each
\* carrying its loop variable and the tracker built so far
RECURSIVE initialStateCols(_, _, _, _, _)
initialStateCols(n, bs, b, row, loop) ==
  IF loop.col >= n THEN loop.state
  ELSE LET value == b[getIndex(n, row, loop.col) + 1]
       IN initialStateCols(n, bs, b, row,
            [state |-> IF value # 0 THEN set(n, bs, loop.state, row, loop.col, value)
                       ELSE loop.state,
             col   |-> loop.col + 1])

RECURSIVE initialStateRows(_, _, _, _)
initialStateRows(n, bs, b, loop) ==
  IF loop.row >= n THEN loop.state
  ELSE initialStateRows(n, bs, b,
         [state |-> initialStateCols(n, bs, b, loop.row, [state |-> loop.state, col |-> 0]),
          row   |-> loop.row + 1])

\* the partition started from the empty tracker, the board's values not set
generateSubproblemsUninitialised(n, bs, b, partitionDepth) ==
  generateSubproblemsRecursive(n, bs, [board |-> b, state |-> BitMaskState(n), startPos |-> 0],
                               0, partitionDepth,
                               [results |-> <<>>, tried |-> 0, placed |-> 0])

generateSubproblems(n, bs, b, partitionDepth) ==
  LET initial == [board    |-> b,
                  state    |-> initialStateRows(n, bs, b, [state |-> BitMaskState(n), row |-> 0]),
                  startPos |-> 0]
  IN generateSubproblemsRecursive(n, bs, initial, 0, partitionDepth,
                                  [results |-> <<>>, tried |-> 0, placed |-> 0])

\* --------------------------------------------------------------- reduction
\* reduction(+:totalSolutions): the value of totalSolutions after the loop is
\* its value before the loop (0) plus every iteration's contribution
RECURSIVE reduction(_)
reduction(parts) == IF parts = <<>> THEN 0 ELSE Head(parts) + reduction(Tail(parts))

\* std::vector<int>(possibleValues.begin(), possibleValues.end()): ascending
RECURSIVE valuesListOf(_)
valuesListOf(possibleValues) ==
  IF possibleValues = {} THEN <<>>
  ELSE LET least == CHOOSE v \in possibleValues : \A w \in possibleValues : v <= w
       IN <<least>> \o valuesListOf(possibleValues \ {least})

\* "Find first empty cell" of solveParallel
\* the scan with foundEmpty left true and the cell at (0,0) when none is empty
findFirstEmptyDefaulted(n, b) ==
  LET empties == {p \in 0..(n * n - 1) : b[p + 1] = 0}
  IN IF empties = {} THEN [foundEmpty |-> TRUE, firstRow |-> 0, firstCol |-> 0]
     ELSE LET p == CHOOSE q \in empties : \A r \in empties : q <= r
          IN [foundEmpty |-> TRUE, firstRow |-> p \div n, firstCol |-> p % n]

findFirstEmpty(n, b) ==
  LET empties == {p \in 0..(n * n - 1) : b[p + 1] = 0}
  IN IF empties = {} THEN [foundEmpty |-> FALSE, firstRow |-> -1, firstCol |-> -1]
     ELSE LET p == CHOOSE q \in empties : \A r \in empties : q <= r
          IN [foundEmpty |-> TRUE, firstRow |-> p \div n, firstCol |-> p % n]

\* the body of one iteration i of the parallel loop of solveParallel
solveParallelTask(n, bs, b, firstRow, firstCol, value) ==
  LET boardCopy == [b EXCEPT ![getIndex(n, firstRow, firstCol) + 1] = value]
      pos == getIndex(n, firstRow, firstCol) + 1
  IN solveFromState(n, bs, boardCopy, pos)

\* ------------------------------------------------------------ whole solves
\* What one call of a solve method computes: the count it stores, the
\* candidate tests and placements it performed, the board it leaves.
solveSingleThreadRun(n, bs, b) == backtrackSingleThread(n, bs, b, 0)

solveParallelRun(n, bs, b) ==
  LET first == findFirstEmpty(n, b)
  IN IF ~first.foundEmpty THEN [count |-> 1, tried |-> 0, placed |-> 0]
     ELSE LET candidates == valuesListOf(getPossibleValues(n, bs, b, first.firstRow, first.firstCol))
              numValues == Len(candidates)
              task == [i \in 1..numValues |->
                         solveParallelTask(n, bs, b, first.firstRow, first.firstCol, candidates[i])]
          IN [count  |-> reduction([i \in 1..numValues |-> task[i].count]),
              tried  |-> n + reduction([i \in 1..numValues |-> task[i].tried]),
              placed |-> numValues + reduction([i \in 1..numValues |-> task[i].placed])]

solveParallelOptimizedRun(n, bs, b, partitionDepth) ==
  LET gen == generateSubproblems(n, bs, b, partitionDepth)
      numSubproblems == Len(gen.results)
      task == [i \in 1..numSubproblems |-> solveSubproblem(n, bs, gen.results[i])]
  IN [subproblems |-> gen.results,
      count  |-> IF gen.results = <<>> THEN 0
                 ELSE reduction([i \in 1..numSubproblems |-> task[i].count]),
      tried  |-> gen.tried + reduction([i \in 1..numSubproblems |-> task[i].tried]),
      placed |-> gen.placed + reduction([i \in 1..numSubproblems |-> task[i].placed])]

\* blockMask has N entries: a block index of N or more is an access outside
\* the vector (undefined behaviour), which happens for some cell exactly when
\* N is not a perfect square
OutOfBounds(n, bs) ==
  \E row \in 0..(n - 1) : \E col \in 0..(n - 1) : blockIdxOf(bs, row, col) >= n

\* ------------------------------------------------------------------ inputs
EmptyBoard(n) == [i \in 1..(n * n) |-> 0]

\* a complete valid grid of dimension bs * bs
FullBoard(bs) ==
  [i \in 1..(bs * bs * bs * bs) |->
     LET r == (i - 1) \div (bs * bs)
         c == (i - 1) % (bs * bs)
     IN (((r % bs) * bs + (r \div bs) + c) % (bs * bs)) + 1]

Full4 == FullBoard(2)
\* two solutions: the 1/3 rectangle in rows 0 and 1, columns 0 and 2 is open
Rect4 == [Full4 EXCEPT ![1] = 0, ![3] = 0, ![5] = 0, ![7] = 0]
\* the two top rows open
Half4 == [i \in 1..16 |-> IF i <= 8 THEN 0 ELSE Full4[i]]
\* no duplicate, but cell (0,3) has no candidate
Dead4 == <<1, 2, 3, 0,  0, 0, 0, 0,  0, 0, 0, 4,  0, 0, 0, 0>>
\* a complete grid with 1 twice in row 0
DupFull4 == [Full4 EXCEPT ![2] = 1]
\* a partial grid with 4 twice in column 2
DupPart4 == [Half4 EXCEPT ![3] = 4, ![7] = 4]
\* N = 36: a complete grid, and the same grid with the cell holding 36 open
Full36 == FullBoard(6)
Hole36 == [Full36 EXCEPT ![36] = 0]

BoardInputs ==
  { <<>>, <<1>>, <<1, 2, 2, 1>>,
    EmptyBoard(4), Full4, Rect4, Half4, Dead4, DupFull4, DupPart4,
    Full36, Hole36 }

Dims == {0, 1, 2, 4, 36}

NumEmpty(b) == Cardinality({i \in 1..Len(b) : b[i] = 0})
Explored(b) == NumEmpty(b) <= MaxEmpty

\* every (N, blockSize, board) a constructed solver can hold and be solved on
SolverConfigs ==
  {cfg \in {<<n, ISqrt(n), d>> : n \in Dims, d \in BoardInputs \cup {EmptyBoard(m) : m \in Dims}} :
     Len(cfg[3]) = cfg[1] * cfg[1] /\ Explored(cfg[3])}

\* the runs of the solve methods on those configurations, computed once
\* (@@ <<>> makes each table an explicit function, evaluated once)
SingleRuns ==
  [cfg \in SolverConfigs |-> solveSingleThreadRun(cfg[1], cfg[2], cfg[3])] @@ <<>>
NaiveRuns ==
  [cfg \in SolverConfigs |-> solveParallelRun(cfg[1], cfg[2], cfg[3])] @@ <<>>
OptimizedRuns ==
  [cfg \in {c \in SolverConfigs : ~OutOfBounds(c[1], c[2])} |->
     [depth \in 0..MaxDepth |->
        solveParallelOptimizedRun(cfg[1], cfg[2], cfg[3], depth)] @@ <<>>] @@ <<>>

\* the mark of a strategy that has not run: no count is negative
NoCount == 0 - 1
Durations == 0..MaxDuration
\* outcomes of a solve that read or wrote outside blockMask
UndefinedCounts == 0..2

\* -------------------------------------------------------------------- state
VARIABLES
  N, blockSize, board, numSolutions, runningTime,   \* the SudokuSolver object
  errors,       \* error conditions reported on std::cerr and still standing
  lastOp,       \* the last operation called on the solver and its arguments
  seen,         \* per strategy, the count it stored for the board now loaded
  subproblems,  \* the list built by the last solveParallelOptimized
  work          \* candidate tests and placements of the last solve

\* the parallel region of a running solveParallel / solveParallelOptimized
VARIABLES
  pc,             \* "idle", "parallel" (inside the omp parallel for), "done"
  numWorkers,     \* omp_set_num_threads(numThreads): size of the team
  valuesList,     \* solveParallel: the candidate values, one per iteration
  pending,        \* iterations of the loop not yet handed to a thread
  wtask,          \* per thread, the iteration it is executing (0: none)
  copy,           \* per thread, boardCopy / stateCopy of its iteration
  stack,          \* per thread, the call stack of its search
  wtotal,         \* per thread, its private copy of totalSolutions
  totalSolutions, \* the shared (original) totalSolutions
  merged,         \* threads whose private copy has been combined
  solved,         \* per iteration, how many times its body has completed
  writes,         \* every grid/tracker write of a task: who wrote which object
  atCall          \* the root board and the task list as the region began

solverVars == <<N, blockSize, board, numSolutions, runningTime>>
obsVars == <<errors, lastOp, seen, subproblems, work>>
parVars == <<pc, numWorkers, valuesList, pending, wtask, copy, stack, wtotal,
             totalSolutions, merged, solved, writes, atCall>>
vars == <<N, blockSize, board, numSolutions, runningTime,
          errors, lastOp, seen, subproblems, work,
          pc, numWorkers, valuesList, pending, wtask, copy, stack, wtotal,
          totalSolutions, merged, solved, writes, atCall>>

Workers == 1..MaxThreads
NoGrid == [board |-> <<>>, state |-> <<>>]

\* no parallel region is running
ParIdle ==
  /\ pc = "idle"
  /\ numWorkers = 0
  /\ valuesList = <<>>
  /\ pending = {}
  /\ wtask = [w \in Workers |-> 0]
  /\ copy = [w \in Workers |-> NoGrid]
  /\ stack = [w \in Workers |-> <<>>]
  /\ wtotal = [w \in Workers |-> 0]
  /\ totalSolutions = 0
  /\ merged = {}
  /\ solved = <<>>
  /\ writes = {}
  /\ atCall = [board |-> <<>>, subproblems |-> <<>>]

NoWork == [tried |-> 0, placed |-> 0]
NoneSeen == [single |-> NoCount, naive |-> NoCount, optimized |-> NoCount]

\* SudokuSolver::SudokuSolver(int N)
Constructor(n) ==
  /\ N = n
  /\ blockSize = ISqrt(n)
  /\ numSolutions = 0
  /\ runningTime = 0
  /\ board = EmptyBoard(n)
  /\ errors = (IF ISqrt(n) * ISqrt(n) # n THEN {"notPerfectSquare"} ELSE {})
                \cup (IF n > MaxMaskValue THEN {"exceedsMaximum"} ELSE {})
  /\ lastOp = [op |-> "construct"]
  /\ seen = NoneSeen
  /\ subproblems = <<>>
  /\ work = NoWork

Init == (\E n \in Dims : Constructor(n)) /\ ParIdle

\* a load that clears the results before it tests the length
LoadBoardResetting(boardData) ==
  /\ numSolutions' = 0
  /\ runningTime' = 0
  /\ IF Len(boardData) # N * N
     THEN /\ errors' = errors \cup {"sizeMismatch"}
          /\ UNCHANGED <<board, seen>>
     ELSE /\ board' = boardData
          /\ errors' = errors \ {"sizeMismatch"}
          /\ seen' = NoneSeen
  /\ lastOp' = [op |-> "loadBoard", boardData |-> boardData]
  /\ UNCHANGED <<N, blockSize, subproblems, work>>
  /\ UNCHANGED parVars

LoadBoard(boardData) ==
  /\ IF Len(boardData) # N * N
     THEN /\ errors' = errors \cup {"sizeMismatch"}
          /\ UNCHANGED <<board, seen>>
     ELSE /\ board' = boardData
          /\ errors' = errors \ {"sizeMismatch"}
          /\ seen' = NoneSeen
  /\ lastOp' = [op |-> "loadBoard", boardData |-> boardData]
  /\ UNCHANGED <<N, blockSize, numSolutions, runningTime, subproblems, work>>
  /\ UNCHANGED parVars

SolveSingleThread ==
  LET run == SingleRuns[<<N, blockSize, board>>]
  IN /\ Explored(board)
     /\ numSolutions' = run.count
     /\ board' = run.board
     /\ seen' = [seen EXCEPT !.single = run.count]
     /\ work' = [tried |-> run.tried, placed |-> run.placed]
     /\ lastOp' = [op |-> "solveSingleThread"]
     /\ runningTime' \in Durations
     /\ UNCHANGED <<N, blockSize, errors, subproblems>>
     /\ UNCHANGED parVars

SolveParallel(numThreads) ==
  LET run == NaiveRuns[<<N, blockSize, board>>]
  IN /\ Explored(board)
     /\ numSolutions' = run.count
     /\ seen' = [seen EXCEPT !.naive = run.count]
     /\ work' = [tried |-> run.tried, placed |-> run.placed]
     /\ lastOp' = [op |-> "solveParallel", numThreads |-> numThreads]
     /\ runningTime' \in Durations
     /\ UNCHANGED <<N, blockSize, board, errors, subproblems>>
     /\ UNCHANGED parVars

SolveParallelOptimized(numThreads, partitionDepth) ==
  /\ Explored(board)
  /\ IF OutOfBounds(N, blockSize)
     THEN /\ numSolutions' \in UndefinedCounts
          /\ seen' = [seen EXCEPT !.optimized = numSolutions']
          /\ subproblems' = <<>>
          /\ work' = NoWork
     ELSE LET run == OptimizedRuns[<<N, blockSize, board>>][partitionDepth]
          IN /\ numSolutions' = run.count
             /\ seen' = [seen EXCEPT !.optimized = run.count]
             /\ subproblems' = run.subproblems
             /\ work' = [tried |-> run.tried, placed |-> run.placed]
  /\ lastOp' = [op |-> "solveParallelOptimized", numThreads |-> numThreads,
                partitionDepth |-> partitionDepth]
  /\ runningTime' \in Durations
  /\ UNCHANGED <<N, blockSize, board, errors>>
  /\ UNCHANGED parVars

Next ==
  \/ \E boardData \in BoardInputs : LoadBoard(boardData)
  \/ SolveSingleThread
  \/ \E numThreads \in 1..MaxThreads : SolveParallel(numThreads)
  \/ \E numThreads \in 1..MaxThreads : \E partitionDepth \in 0..MaxDepth :
       SolveParallelOptimized(numThreads, partitionDepth)

Spec == Init /\ [][Next]_vars
\* ------------------------------------------------- the parallel region
\* SpecPar follows one call of solveParallel or solveParallelOptimized through
\* its omp parallel for: the team's threads take iterations, each iteration
\* runs its search step by step on its own grid, the private sums are
\* combined, and the total is stored after the loop's barrier.

\* the loaded solvers a parallel call is followed on
ParBoards == {<<0>>, Full4, Rect4, Dead4, DupPart4, Half4}

InitPar ==
  /\ \E b \in ParBoards : \E n \in Dims :
       /\ Len(b) = n * n
       /\ N = n
       /\ blockSize = ISqrt(n)
       /\ board = b
       /\ lastOp = [op |-> "loadBoard", boardData |-> b]
  /\ numSolutions = 0
  /\ runningTime = 0
  /\ errors = {}
  /\ seen = NoneSeen
  /\ subproblems = <<>>
  /\ work = NoWork
  /\ ParIdle

\* one activation record of a search: the position, the loop variable value
\* (0: the loop has not started), whether the value is placed and a callee is
\* pending, the local count, and (solveFromState) the board it was passed
Frame(boardRef, pos) ==
  [pos |-> pos, value |-> 0, placed |-> FALSE, count |-> 0, boardRef |-> boardRef]

\* the loop body of the parallel for, which receives the search's result
BodyFrame == Frame(<<>>, -1)

Optimized == lastOp.op = "solveParallelOptimized"
Sequential == lastOp.op = "solveSingleThread"
\* the search works in place, on one grid it is passed or owns
InPlace == Optimized \/ Sequential

\* the object a task's grid and tracker writes go to: solveSubproblem
\* searches on boardCopy / stateCopy, copies it makes of its const argument
\* the search run on the list's entry itself, no copy made
TaskGridInPlace(i) == [kind |-> "subproblem", owner |-> i]

TaskGrid(i) == [kind |-> "copy", owner |-> i]

\* solveParallel's iteration writes its candidate into boardCopy, a copy of
\* the solver's board declared inside the loop body
IterationGrid(i) == [kind |-> "copy", owner |-> i]

\* the grid and tracker behind a target, as thread w sees them
Deref(w, target) ==
  IF target.kind = "copy" THEN copy[w]
  ELSE IF target.kind = "subproblem"
       THEN [board |-> subproblems[target.owner].board,
             state |-> subproblems[target.owner].state]
       ELSE [board |-> board, state |-> <<>>]

\* thread w, running iteration i, writes grid g through target
WriteGrid(w, i, target, g) ==
  /\ copy' = IF target.kind = "copy" THEN [copy EXCEPT ![w] = g] ELSE copy
  /\ subproblems' =
       IF target.kind = "subproblem"
       THEN [subproblems EXCEPT ![target.owner].board = g.board,
                                ![target.owner].state = g.state]
       ELSE subproblems
  /\ board' = IF target.kind = "root" THEN g.board ELSE board
  /\ writes' = writes \cup {[task |-> i, target |-> target]}

\* the iterations left after iteration i is handed to a thread
\* the iteration handed out but left in the set
RemainingWithTaken(iterations, i) == iterations

Remaining(iterations, i) == iterations \ {i}

\* one application of the reduction operator +
\* an update that overwrites the total
combineOverwriting(total, partial) == partial

combine(total, partial) == total + partial

\* the implicit barrier that ends the parallel for: every iteration has been
\* handed out and finished, every private copy has been combined
LoopComplete ==
  /\ pending = {}
  /\ \A w \in 1..numWorkers : wtask[w] = 0
  /\ merged = 1..numWorkers

EnterRegion(numThreads, numIterations) ==
  /\ pc' = "parallel"
  /\ numWorkers' = numThreads
  /\ pending' = 1..numIterations
  /\ solved' = [i \in 1..numIterations |-> 0]
  /\ totalSolutions' = 0
  /\ UNCHANGED <<wtask, copy, stack, wtotal, merged, writes>>

\* solveParallel up to the parallel loop (lines 243-275)
BeginSolveParallel(numThreads) ==
  /\ pc = "idle"
  /\ lastOp' = [op |-> "solveParallel", numThreads |-> numThreads]
  /\ atCall' = [board |-> board, subproblems |-> <<>>]
  /\ LET first == findFirstEmpty(N, board)
     IN IF ~first.foundEmpty
        THEN /\ numSolutions' = 1
             /\ runningTime' \in Durations
             /\ seen' = [seen EXCEPT !.naive = 1]
             /\ pc' = "done"
             /\ UNCHANGED <<numWorkers, valuesList, pending, wtask, copy, stack, wtotal,
                            totalSolutions, merged, solved, writes>>
        ELSE /\ valuesList' = valuesListOf(getPossibleValues(N, blockSize, board,
                                                             first.firstRow, first.firstCol))
             /\ EnterRegion(numThreads, Len(valuesList'))
             /\ UNCHANGED <<numSolutions, runningTime, seen>>
  /\ UNCHANGED <<N, blockSize, board, errors, subproblems, work>>

\* solveParallelOptimized up to the parallel loop (lines 452-469)
BeginSolveParallelOptimized(numThreads, partitionDepth) ==
  /\ pc = "idle"
  /\ ~OutOfBounds(N, blockSize)
  /\ lastOp' = [op |-> "solveParallelOptimized", numThreads |-> numThreads,
                partitionDepth |-> partitionDepth]
  /\ subproblems' = generateSubproblems(N, blockSize, board, partitionDepth).results
  /\ atCall' = [board |-> board, subproblems |-> subproblems']
  /\ IF subproblems' = <<>>
     THEN /\ numSolutions' = 0
          /\ runningTime' \in Durations
          /\ seen' = [seen EXCEPT !.optimized = 0]
          /\ pc' = "done"
          /\ UNCHANGED <<numWorkers, pending, wtask, copy, stack, wtotal,
                         totalSolutions, merged, solved, writes>>
     ELSE /\ EnterRegion(numThreads, Len(subproblems'))
          /\ UNCHANGED <<numSolutions, runningTime, seen>>
  /\ UNCHANGED <<N, blockSize, board, errors, work, valuesList>>

\* ---- the search of one iteration, as a stack of activation records
\* the value the call on top of stk tests next is accepted
Accepted(g, stk) ==
  LET top == stk[Len(stk)]
      row == top.pos \div N
      col == top.pos % N
  IN IF Optimized THEN canPlace(N, blockSize, g.state, row, col, top.value)
     ELSE IF Sequential THEN isValid(N, blockSize, g.board, row, col, top.value)
     ELSE isValidWithBoard(N, blockSize, top.boardRef, row, col, top.value)

\* the call on top returns result: its caller adds it to its count;
\* solveFromState's caller then moves on to the next value (its boardCopy
\* dies), backtrackWithBitmask's caller has its retraction still to do
ReturnTo(stk, result) ==
  LET caller == stk[Len(stk) - 1]
      resumed == IF InPlace
                 THEN [caller EXCEPT !.count = @ + result]
                 ELSE [caller EXCEPT !.count = @ + result, !.placed = FALSE, !.value = @ + 1]
  IN Append(SubSeq(stk, 1, Len(stk) - 2), resumed)

\* A thread runs its search up to its next write to a grid: the steps that
\* read only (the base case, the skip of a filled cell, a rejected value, the
\* end of the loop and the return) are taken until a placement or a
\* retraction is due or the body's call has returned.
RECURSIVE RunToWrite(_, _)
RECURSIVE RunToWriteFrom(_, _)
RunToWriteFrom(g, stk) ==
  LET top == stk[Len(stk)]
      cell == IF InPlace THEN g.board[top.pos + 1] ELSE top.boardRef[top.pos + 1]
  IN IF Len(stk) = 1 \/ top.placed THEN stk
     ELSE IF top.value = 0
          THEN IF top.pos = N * N THEN RunToWrite(g, ReturnTo(stk, 1))
               ELSE IF cell # 0
                    THEN RunToWrite(g, [stk EXCEPT ![Len(stk)].pos = @ + 1])
                    ELSE RunToWrite(g, [stk EXCEPT ![Len(stk)].value = 1])
          ELSE IF top.value > N THEN RunToWrite(g, ReturnTo(stk, top.count))
               ELSE IF Accepted(g, stk) THEN stk
                    ELSE RunToWrite(g, [stk EXCEPT ![Len(stk)].value = @ + 1])

\* the stack is taken as a value, then the read-only steps are run from it
RunToWrite(g, stk) == CHOOSE r \in {RunToWriteFrom(g, s) : s \in {stk}} : TRUE

\* a thread of the team takes an iteration and starts its body:
\* solveSubproblem copies the subproblem and calls backtrackWithBitmask
\* (lines 474, 380-382); solveParallel's body copies the board, writes its
\* candidate and calls solveFromState (lines 280-288)
Dispatch(w) ==
  /\ pc = "parallel"
  /\ w \in 1..numWorkers
  /\ wtask[w] = 0
  /\ \E i \in pending :
       /\ pending' = Remaining(pending, i)
       /\ wtask' = [wtask EXCEPT ![w] = i]
       /\ IF Optimized
          THEN LET g == [board |-> subproblems[i].board, state |-> subproblems[i].state]
               IN /\ copy' = IF TaskGrid(i).kind = "copy" THEN [copy EXCEPT ![w] = g]
                             ELSE copy
                  /\ stack' = [stack EXCEPT ![w] =
                       RunToWrite(g, <<BodyFrame, Frame(<<>>, subproblems[i].startPos)>>)]
                  /\ UNCHANGED <<board, subproblems, writes>>
          ELSE LET first == findFirstEmpty(N, atCall.board)
                   idx == getIndex(N, first.firstRow, first.firstCol)
                   boardCopy == [Deref(w, [kind |-> "root"]).board EXCEPT ![idx + 1] = valuesList[i]]
               IN /\ WriteGrid(w, i, IterationGrid(i), [board |-> boardCopy, state |-> <<>>])
                  /\ stack' = [stack EXCEPT ![w] =
                       RunToWrite(NoGrid, <<BodyFrame, Frame(boardCopy, idx + 1)>>)]
  /\ UNCHANGED <<N, blockSize, numSolutions, runningTime, errors, lastOp, seen, work>>
  /\ UNCHANGED <<pc, numWorkers, valuesList, wtotal, totalSolutions, merged, solved, atCall>>

Searching(w) == pc = "parallel" /\ w \in 1..numWorkers /\ wtask[w] # 0 /\ Len(stack[w]) >= 2
Top(w) == stack[w][Len(stack[w])]

SearchFrame ==
  /\ UNCHANGED <<N, blockSize, numSolutions, runningTime, errors, lastOp, seen, work>>
  /\ UNCHANGED <<pc, numWorkers, valuesList, pending, wtask, wtotal, totalSolutions,
                 merged, solved, atCall>>

\* the accepted value is placed and the search is called on the next
\* position: backtrackWithBitmask writes the grid and tracker it was passed
\* (lines 362-365), solveFromState a fresh boardCopy (lines 221-223)
Place(w) ==
  /\ Searching(w)
  /\ ~Top(w).placed
  /\ LET pos == Top(w).pos
         row == pos \div N
         col == pos % N
         value == Top(w).value
         i == wtask[w]
         called == [stack[w] EXCEPT ![Len(stack[w])].placed = TRUE]
     IN IF Optimized
        THEN LET g == Deref(w, TaskGrid(i))
                 placed == [board |-> [g.board EXCEPT ![getIndex(N, row, col) + 1] = value],
                            state |-> set(N, blockSize, g.state, row, col, value)]
             IN /\ WriteGrid(w, i, TaskGrid(i), placed)
                /\ stack' = [stack EXCEPT ![w] =
                     RunToWrite(placed, Append(called, Frame(<<>>, pos + 1)))]
        ELSE LET boardCopy == [Top(w).boardRef EXCEPT ![getIndex(N, row, col) + 1] = value]
             IN /\ stack' = [stack EXCEPT ![w] =
                     RunToWrite(NoGrid, Append(called, Frame(boardCopy, pos + 1)))]
                /\ writes' = writes \cup {[task |-> i, target |-> IterationGrid(i)]}
                /\ UNCHANGED <<board, subproblems, copy>>
  /\ SearchFrame

\* a retraction that leaves the loop at the value it has just retracted
RetractSameValue(w) ==
  /\ Searching(w)
  /\ Top(w).placed
  /\ LET pos == Top(w).pos
         row == pos \div N
         col == pos % N
         i == wtask[w]
         g == Deref(w, TaskGrid(i))
         retracted == [board |-> [g.board EXCEPT ![getIndex(N, row, col) + 1] = 0],
                       state |-> unset(N, blockSize, g.state, row, col, Top(w).value)]
     IN /\ WriteGrid(w, i, TaskGrid(i), retracted)
        /\ stack' = [stack EXCEPT ![w] =
             RunToWrite(retracted, [stack[w] EXCEPT ![Len(stack[w])].placed = FALSE])]
  /\ SearchFrame

\* backtrackWithBitmask after the callee returned: clear the cell and the
\* bits (lines 367-368), then go on with the next value
Retract(w) ==
  /\ Searching(w)
  /\ Top(w).placed
  /\ LET pos == Top(w).pos
         row == pos \div N
         col == pos % N
         i == wtask[w]
         g == Deref(w, TaskGrid(i))
         retracted == [board |-> [g.board EXCEPT ![getIndex(N, row, col) + 1] = 0],
                       state |-> unset(N, blockSize, g.state, row, col, Top(w).value)]
     IN /\ WriteGrid(w, i, TaskGrid(i), retracted)
        /\ stack' = [stack EXCEPT ![w] =
             RunToWrite(retracted, [stack[w] EXCEPT ![Len(stack[w])].placed = FALSE,
                                                    ![Len(stack[w])].value = @ + 1])]
  /\ SearchFrame

\* the body's search has returned: totalSolutions += solutions, on the
\* thread's private copy of the reduction variable
Finish(w) ==
  /\ pc = "parallel"
  /\ w \in 1..numWorkers
  /\ wtask[w] # 0
  /\ Len(stack[w]) = 1
  /\ wtotal' = [wtotal EXCEPT ![w] = @ + stack[w][1].count]
  /\ solved' = [solved EXCEPT ![wtask[w]] = @ + 1]
  /\ wtask' = [wtask EXCEPT ![w] = 0]
  /\ stack' = [stack EXCEPT ![w] = <<>>]
  /\ copy' = [copy EXCEPT ![w] = NoGrid]
  /\ UNCHANGED <<N, blockSize, board, numSolutions, runningTime, errors, lastOp, seen,
                 subproblems, work>>
  /\ UNCHANGED <<pc, numWorkers, valuesList, pending, totalSolutions, merged, writes, atCall>>

OutOfWork(w) == pc = "parallel" /\ w \in 1..numWorkers /\ pending = {} /\ wtask[w] = 0

\* the reduction: a private copy is combined into the original variable ...
CombineShared(w) ==
  /\ OutOfWork(w)
  /\ w \notin merged
  /\ totalSolutions' = combine(totalSolutions, wtotal[w])
  /\ merged' = merged \cup {w}
  /\ UNCHANGED <<N, blockSize, board, numSolutions, runningTime, errors, lastOp, seen,
                 subproblems, work>>
  /\ UNCHANGED <<pc, numWorkers, valuesList, pending, wtask, copy, stack, wtotal, solved,
                 writes, atCall>>

\* ... or two private copies are combined first (any grouping)
CombinePair(a, b) ==
  /\ OutOfWork(a) /\ OutOfWork(b)
  /\ a # b /\ a \notin merged /\ b \notin merged
  /\ wtotal' = [wtotal EXCEPT ![a] = combine(wtotal[a], wtotal[b]), ![b] = 0]
  /\ merged' = merged \cup {b}
  /\ UNCHANGED <<N, blockSize, board, numSolutions, runningTime, errors, lastOp, seen,
                 subproblems, work>>
  /\ UNCHANGED <<pc, numWorkers, valuesList, pending, wtask, copy, stack, totalSolutions,
                 solved, writes, atCall>>

\* after the loop: numSolutions = totalSolutions, then the timer (lines 292-296
\* and 478-482)
StoreResult ==
  /\ pc = "parallel"
  /\ LoopComplete
  /\ numSolutions' = totalSolutions
  /\ runningTime' \in Durations
  /\ seen' = IF Optimized THEN [seen EXCEPT !.optimized = totalSolutions]
             ELSE [seen EXCEPT !.naive = totalSolutions]
  /\ pc' = "done"
  /\ UNCHANGED <<N, blockSize, board, errors, lastOp, subproblems, work>>
  /\ UNCHANGED <<numWorkers, valuesList, pending, wtask, copy, stack, wtotal, totalSolutions,
                 merged, solved, writes, atCall>>

NextPar ==
  \/ \E numThreads \in 1..MaxThreads : BeginSolveParallel(numThreads)
  \/ \E numThreads \in 1..MaxThreads : \E partitionDepth \in 0..MaxDepth :
       BeginSolveParallelOptimized(numThreads, partitionDepth)
  \/ \E w \in Workers : Dispatch(w)
  \/ \E w \in Workers : Place(w)
  \/ \E w \in Workers : Retract(w)
  \/ \E w \in Workers : Finish(w)
  \/ \E w \in Workers : CombineShared(w)
  \/ \E a \in Workers : \E b \in Workers : CombinePair(a, b)
  \/ StoreResult

SpecPar == InitPar /\ [][NextPar]_vars

\* ------------------------------------------------- the sequential search
\* solveSingleThread followed call by call: backtrackSingleThread works in
\* place on the solver's board, on the calling thread (thread 1).
SeqFrame ==
  /\ UNCHANGED <<N, blockSize, errors, lastOp, seen, subproblems, work>>
  /\ UNCHANGED <<numWorkers, valuesList, pending, wtask, copy, wtotal, totalSolutions,
                 merged, solved, writes, atCall>>

\* solveSingleThread is entered and the timer started (lines 231-232)
BeginSolveSingleThread ==
  /\ pc = "idle"
  /\ lastOp' = [op |-> "solveSingleThread"]
  /\ atCall' = [board |-> board, subproblems |-> <<>>]
  /\ pc' = "sequential"
  /\ UNCHANGED <<N, blockSize, board, numSolutions, runningTime, errors, seen,
                 subproblems, work>>
  /\ UNCHANGED <<numWorkers, valuesList, pending, wtask, copy, stack, wtotal,
                 totalSolutions, merged, solved, writes>>

\* backtrackSingleThread(0) is called (line 234)
SeqCall ==
  /\ pc = "sequential"
  /\ stack[1] = <<>>
  /\ stack' = [stack EXCEPT ![1] =
       RunToWrite([board |-> board, state |-> <<>>], <<BodyFrame, Frame(<<>>, 0)>>)]
  /\ UNCHANGED <<board, numSolutions, runningTime, pc>>
  /\ SeqFrame

SeqSearching == pc = "sequential" /\ Len(stack[1]) >= 2

\* the accepted value is written to the board and the search called on the
\* next position (lines 190-191)
SeqPlace ==
  /\ SeqSearching
  /\ ~Top(1).placed
  /\ LET pos == Top(1).pos
         placed == [board EXCEPT ![getIndex(N, pos \div N, pos % N) + 1] = Top(1).value]
         called == [stack[1] EXCEPT ![Len(stack[1])].placed = TRUE]
     IN /\ board' = placed
        /\ stack' = [stack EXCEPT ![1] =
             RunToWrite([board |-> placed, state |-> <<>>], Append(called, Frame(<<>>, pos + 1)))]
  /\ UNCHANGED <<numSolutions, runningTime, pc>>
  /\ SeqFrame

\* the cell is cleared after the callee returned (line 192) and the loop
\* goes on with the next value
SeqRetract ==
  /\ SeqSearching
  /\ Top(1).placed
  /\ LET pos == Top(1).pos
         retracted == [board EXCEPT ![getIndex(N, pos \div N, pos % N) + 1] = 0]
     IN /\ board' = retracted
        /\ stack' = [stack EXCEPT ![1] =
             RunToWrite([board |-> retracted, state |-> <<>>],
                        [stack[1] EXCEPT ![Len(stack[1])].placed = FALSE,
                                         ![Len(stack[1])].value = @ + 1])]
  /\ UNCHANGED <<numSolutions, runningTime, pc>>
  /\ SeqFrame

\* backtrackSingleThread(0) has returned: numSolutions is assigned and the
\* timer read (lines 234-238)
SeqStore ==
  /\ pc = "sequential"
  /\ Len(stack[1]) = 1
  /\ numSolutions' = stack[1][1].count
  /\ runningTime' \in Durations
  /\ seen' = [seen EXCEPT !.single = stack[1][1].count]
  /\ stack' = [stack EXCEPT ![1] = <<>>]
  /\ pc' = "done"
  /\ UNCHANGED <<N, blockSize, board, errors, lastOp, subproblems, work>>
  /\ UNCHANGED <<numWorkers, valuesList, pending, wtask, copy, wtotal, totalSolutions,
                 merged, solved, writes, atCall>>

NextSeq ==
  \/ BeginSolveSingleThread
  \/ SeqCall
  \/ SeqPlace
  \/ SeqRetract
  \/ SeqStore

\* one call of any of the three solve methods, followed step by step; the
\* threads are scheduled, so a step that can be taken is eventually taken
NextLive == NextPar \/ NextSeq
SpecSteps == InitPar /\ [][NextLive]_vars
LiveBoards == ParBoards \ {Half4}
InitLive == InitPar /\ board \in LiveBoards
SpecLive == InitLive /\ [][NextLive]_vars /\ WF_vars(NextLive)

\* ------------------------------------------------- the tracker by itself
\* SpecTracker calls set and unset on one BitMaskState of dimension N
\* (copy[1].state) with values inside and outside the ranges the code tests.
TrackerDims == {4, 36}
TrackerCells == {<<0, 0>>, <<3, 3>>}
TrackerValues ==
  UNION {{0 - 1, 0, 1, n, n + 1, MaxMaskValue, MaxMaskValue + 1} : n \in TrackerDims}
TrackerOps == {"set", "unset"}

InitTracker ==
  /\ \E n \in TrackerDims : Constructor(n)
  /\ pc = "idle"
  /\ numWorkers = 0
  /\ valuesList = <<>>
  /\ pending = {}
  /\ wtask = [w \in Workers |-> 0]
  /\ copy = [w \in Workers |-> IF w = 1 THEN [board |-> <<>>, state |-> BitMaskState(N)]
                                ELSE NoGrid]
  /\ stack = [w \in Workers |-> <<>>]
  /\ wtotal = [w \in Workers |-> 0]
  /\ totalSolutions = 0
  /\ merged = {}
  /\ solved = <<>>
  /\ writes = {}
  /\ atCall = [board |-> <<>>, subproblems |-> <<>>]

TrackerFrame ==
  /\ UNCHANGED <<N, blockSize, board, numSolutions, runningTime, errors, seen,
                 subproblems, work>>
  /\ UNCHANGED <<pc, numWorkers, valuesList, pending, wtask, stack, wtotal,
                 totalSolutions, merged, solved, writes, atCall>>

\* state.set(N, blockSize, row, col, value)
TrackerSet(cell, value) ==
  /\ copy' = [copy EXCEPT ![1].state = set(N, blockSize, @, cell[1], cell[2], value)]
  /\ lastOp' = [op |-> "set", row |-> cell[1], col |-> cell[2], value |-> value]
  /\ TrackerFrame

\* state.unset(N, blockSize, row, col, value)
TrackerUnset(cell, value) ==
  /\ copy' = [copy EXCEPT ![1].state = unset(N, blockSize, @, cell[1], cell[2], value)]
  /\ lastOp' = [op |-> "unset", row |-> cell[1], col |-> cell[2], value |-> value]
  /\ TrackerFrame

NextTracker ==
  \/ \E cell \in TrackerCells : \E value \in TrackerValues : TrackerSet(cell, value)
  \/ \E cell \in TrackerCells : \E value \in TrackerValues : TrackerUnset(cell, value)

SpecTracker == InitTracker /\ [][NextTracker]_vars

\* ------------------------------------------------------------ vocabulary
SolveOps == {"solveSingleThread", "solveParallel", "solveParallelOptimized"}
Strategies == {"single", "naive", "optimized"}

PerfectSquare(n) == ISqrt(n) * ISqrt(n) = n

\* the cells of row r, column c, block k as flat positions
RowCells(n, r) == {getIndex(n, r, c) : c \in 0..(n - 1)}
ColCells(n, c) == {getIndex(n, r, c) : r \in 0..(n - 1)}
BlockCells(n, bs, k) ==
  {getIndex(n, (k \div bs) * bs + dr, (k % bs) * bs + dc) :
     dr \in 0..(bs - 1), dc \in 0..(bs - 1)}
Units(n, bs) ==
  {RowCells(n, r) : r \in 0..(n - 1)} \cup {ColCells(n, c) : c \in 0..(n - 1)}
    \cup {BlockCells(n, bs, k) : k \in 0..(n - 1)}

\* some non-zero value occurs twice in a row, a column or a block
HasDuplicate(n, bs, b) ==
  \E u \in Units(n, bs) :
    Cardinality({b[p + 1] : p \in u} \ {0}) < Cardinality({p \in u : b[p + 1] # 0})

\* a valid partial assignment: values in 0..N, no duplicate
ValidPartial(n, bs, b) ==
  /\ \A i \in 1..Len(b) : b[i] \in 0..n
  /\ ~HasDuplicate(n, bs, b)

IsFull(b) == \A i \in 1..Len(b) : b[i] # 0

\* the tracker that is the image of a grid: bit v of a mask is set iff v
\* (a representable value) occurs in that row, column, block
TrackerImage(n, bs, b) ==
  [rowMask   |-> [r \in 0..(n - 1) |->
                    {b[p + 1] : p \in RowCells(n, r)} \cap (1..MaxMaskValue)],
   colMask   |-> [c \in 0..(n - 1) |->
                    {b[p + 1] : p \in ColCells(n, c)} \cap (1..MaxMaskValue)],
   blockMask |-> [k \in 0..(n - 1) |->
                    {b[p + 1] : p \in BlockCells(n, bs, k)} \cap (1..MaxMaskValue)]]

SeenCounts == {seen[s] : s \in Strategies} \ {NoCount}

\* ------------------------------------------------------------------ claims
\* C1: for every valid partial board of a perfect-square dimension N, the
\* counts stored by solveSingleThread, solveParallel(k) and
\* solveParallelOptimized(k, depth) are the same number.
StrategyEquivalence ==
  (PerfectSquare(N) /\ ValidPartial(N, blockSize, board))
    => Cardinality(SeenCounts) <= 1

\* the same for the dimensions the bitmask can represent (N <= 31)
StrategyEquivalenceRepresentable ==
  (PerfectSquare(N) /\ N <= MaxMaskValue /\ ValidPartial(N, blockSize, board))
    => Cardinality(SeenCounts) <= 1

\* C2: if the loaded root board contains a duplicate non-zero value in some
\* row, column or block, generateSubproblems returns an empty list for every
\* partition depth and each of the three strategies reports 0 solutions.
DeadRootEmptiness ==
  (PerfectSquare(N) /\ HasDuplicate(N, blockSize, board))
    => /\ lastOp.op = "solveParallelOptimized" => subproblems = <<>>
       /\ SeenCounts \subseteq {0}

\* C3: with N > 31, with N not a perfect square, or after a load rejected
\* for its length, no solve operation runs a search and stores a count.
NoSearchAfterConfigurationError ==
  errors # {} => lastOp.op \notin SolveOps

\* C4: generateSubproblems with partition depth 0 returns exactly one
\* subproblem: the loaded board, the tracker built from it, cursor 0.
DepthZeroIdentity ==
  (lastOp.op = "solveParallelOptimized" /\ lastOp.partitionDepth = 0
     /\ ~OutOfBounds(N, blockSize))
    => subproblems = <<[board    |-> board,
                        state    |-> TrackerImage(N, blockSize, board),
                        startPos |-> 0]>>

DepthZeroOnPartialBoard ==
  /\ lastOp.op = "solveParallelOptimized" /\ lastOp.partitionDepth = 0
  /\ N = 4 /\ board = Rect4
  /\ Len(subproblems) = 1

\* C5: on a fully filled board satisfying every constraint each strategy,
\* for every worker count and partition depth, reports exactly 1 solution
\* and tests and places no candidate value.
CompleteBoardShortCircuit ==
  (PerfectSquare(N) /\ IsFull(board) /\ ~HasDuplicate(N, blockSize, board))
    => /\ SeenCounts \subseteq {1}
       /\ lastOp.op \in SolveOps => (numSolutions = 1 /\ work = NoWork)

AllStrategiesRanOnCompleteBoard ==
  /\ N = 4 /\ board = Full4
  /\ \A s \in Strategies : seen[s] = 1
  /\ lastOp.op = "solveParallelOptimized" /\ lastOp.partitionDepth > 0
  /\ lastOp.numThreads = MaxThreads

\* C6: on the empty 4 x 4 grid each of the three strategies reports exactly
\* 288 solutions.
Empty4x4Has288 ==
  (N = 4 /\ blockSize = 2 /\ board = EmptyBoard(4))
    => /\ SeenCounts \subseteq {288}
       /\ lastOp.op \in SolveOps => numSolutions = 288

AllStrategiesRanOnEmpty4x4 ==
  /\ N = 4 /\ blockSize = 2 /\ board = EmptyBoard(4)
  /\ \A s \in Strategies : seen[s] = 288

\* C7: a loadBoard whose argument has a length other than N * N leaves
\* board, numSolutions and runningTime as they were; one of length N * N
\* replaces the board.
LoadBoardFrame ==
  [][lastOp'.op = "loadBoard" /\ lastOp' # lastOp
       => IF Len(lastOp'.boardData) # N * N
          THEN UNCHANGED <<board, numSolutions, runningTime>>
          ELSE board' = lastOp'.boardData]_vars

RejectedLoadAfterSolve ==
  /\ lastOp.op = "loadBoard" /\ Len(lastOp.boardData) # N * N
  /\ board = Rect4 /\ numSolutions = 2 /\ runningTime > 0

\* ------------------------------------------- claims on the parallel region
RECURSIVE SumOver(_)
SumOver(f) ==
  IF DOMAIN f = {} THEN 0
  ELSE LET i == CHOOSE j \in DOMAIN f : TRUE
       IN f[i] + SumOver([j \in DOMAIN f \ {i} |-> f[j]])

\* the solution count of each iteration's task, computed on the task list
\* and root board the region began with
TaskCounts ==
  IF Optimized
  THEN [i \in 1..Len(atCall.subproblems) |->
          solveSubproblem(N, blockSize, atCall.subproblems[i]).count]
  ELSE LET first == findFirstEmpty(N, atCall.board)
       IN [i \in 1..Len(valuesList) |->
             solveParallelTask(N, blockSize, atCall.board, first.firstRow, first.firstCol,
                               valuesList[i]).count]

RegionRan == pc = "done" /\ numWorkers > 0

\* C8: in solveParallelOptimized and solveParallel the final total is the
\* same for every dispatch order, every interleaving of the workers and
\* every grouping of the partial sums: the sum of the per-task counts.
ReductionOrderIndependent ==
  RegionRan => numSolutions = SumOver(TaskCounts)

BothThreadsContributed ==
  /\ RegionRan /\ Optimized
  /\ numWorkers = 2 /\ Len(subproblems) >= 2
  /\ wtotal[1] > 0 /\ wtotal[2] > 0
  /\ numSolutions = 2

\* C9: while the tasks run, every write to a grid or tracker goes to a copy
\* created by the writing task itself: never to the solver's root board, to
\* an entry of the generated list, or to another task's copy.
TasksWriteOwnCopies ==
  /\ \A wr \in writes : wr.target = [kind |-> "copy", owner |-> wr.task]
  /\ pc # "idle" => board = atCall.board
  /\ (pc # "idle" /\ Optimized) => subproblems = atCall.subproblems

TwoTasksHavePlaced ==
  /\ pc = "parallel" /\ Optimized
  /\ wtask[1] # 0 /\ wtask[2] # 0
  /\ \E wr1 \in writes : \E wr2 \in writes : wr1.task = wtask[1] /\ wr2.task = wtask[2]
  /\ copy[1].board # subproblems[wtask[1]].board
  /\ copy[2].board # subproblems[wtask[2]].board

\* C10: in solveParallelOptimized, for every worker count and scheduling,
\* each generated subproblem is solved exactly once, and numSolutions is
\* written only after all subproblems have completed.
EachSubproblemSolvedOnce ==
  Optimized =>
    /\ \A i \in DOMAIN solved : solved[i] <= 1
    /\ seen.optimized # NoCount => \A i \in DOMAIN solved : solved[i] = 1
    /\ pc = "parallel" => numSolutions = 0

ThreeSubproblemsTwoThreadsDone ==
  /\ RegionRan /\ Optimized
  /\ numWorkers = 2 /\ Len(subproblems) >= 3
  /\ wtotal[1] > 0 /\ wtotal[2] > 0
  /\ seen.optimized = numSolutions
\* every call on a stack is at a position at most N * N and strictly beyond
\* the position of its caller
PositionsIncrease ==
  \A w \in Workers : \A k \in 2..Len(stack[w]) :
    /\ stack[w][k].pos <= N * N
    /\ stack[w][k - 1].pos < stack[w][k].pos

\* C11: every search that is started terminates: each of solveSingleThread,
\* solveParallel and solveParallelOptimized eventually returns, every
\* recursive call being at a strictly larger position, at most N * N.
SearchTerminates ==
  /\ []PositionsIncrease
  /\ (pc \in {"parallel", "sequential"}) ~> (pc = "done")

ParallelSearchReturned ==
  /\ pc = "done" /\ Optimized /\ numWorkers = MaxThreads
  /\ N = 4 /\ board = Rect4 /\ Len(subproblems) = 2
  /\ numSolutions = 2
\* C12: for a tracker of dimension N, set and unset called with a value
\* outside 1..N are no-ops: every row, column and block mask is unchanged.
OutOfDimensionNoOp ==
  [][(lastOp'.op \in TrackerOps /\ lastOp'.value \notin 1..N)
       => copy'[1].state = copy[1].state]_vars

\* C12 as amended: set and unset called with a value outside 1..31 are
\* no-ops: every row, column and block mask is unchanged.
OutOfMaskRangeNoOp ==
  [][(lastOp'.op \in TrackerOps /\ lastOp'.value \notin 1..MaxMaskValue)
       => copy'[1].state = copy[1].state]_vars

OutOfRangeCallOnUsedTracker ==
  /\ lastOp.op \in TrackerOps /\ lastOp.value = MaxMaskValue + 1
  /\ N = 4
  /\ copy[1].state.rowMask[0] = {1, 4}
  /\ copy[1].state.blockMask[3] = {MaxMaskValue}
\* the exact image of a grid: for each row, column and block, the values that
\* occur in it
GridImage(n, bs, b) ==
  [rowMask   |-> [r \in 0..(n - 1) |-> {b[p + 1] : p \in RowCells(n, r)} \ {0}],
   colMask   |-> [c \in 0..(n - 1) |-> {b[p + 1] : p \in ColCells(n, c)} \ {0}],
   blockMask |-> [k \in 0..(n - 1) |-> {b[p + 1] : p \in BlockCells(n, bs, k)} \ {0}]]

\* C13: starting from a valid partial board, the tracker of every state
\* generateSubproblems reaches is the exact image of its grid: bit v of
\* rowMask[r], colMask[c], blockMask[b] is set iff v occurs in that row,
\* column, block.
TrackerIsExactImage ==
  (PerfectSquare(N) /\ ValidPartial(N, blockSize, board)
     /\ lastOp.op = "solveParallelOptimized")
    => \A i \in 1..Len(subproblems) :
         subproblems[i].state = GridImage(N, blockSize, subproblems[i].board)

\* the same where every value has a bit (N <= 31), for the generated list
\* and for the grid and tracker of every running search
TrackerIsImageRepresentable ==
  (N <= MaxMaskValue /\ Optimized /\ ValidPartial(N, blockSize, atCall.board))
    => /\ \A i \in 1..Len(subproblems) :
            subproblems[i].state = GridImage(N, blockSize, subproblems[i].board)
       /\ \A w \in Workers :
            wtask[w] # 0 => copy[w].state = GridImage(N, blockSize, copy[w].board)
\* grid g with the placement of every call of stk (from the k-th on) that
\* has placed its value and not yet retracted it
RECURSIVE PendingGrid(_, _, _)
PendingGrid(g, stk, k) ==
  IF k > Len(stk) THEN g
  ELSE LET f == stk[k]
           placed == [board |-> [g.board EXCEPT ![f.pos + 1] = f.value],
                      state |-> IF Optimized
                                THEN set(N, blockSize, g.state, f.pos \div N, f.pos % N, f.value)
                                ELSE g.state]
       IN PendingGrid(IF f.placed THEN placed ELSE g, stk, k + 1)

\* C14: every call of the recursive search returns with the grid and tracker
\* equal to their values at call entry (at any moment they are the values
\* the outermost call was entered with plus the placements not yet
\* retracted); after a solve method returns, the solver's board is the board
\* that was loaded.
SearchRestoresGrid ==
  /\ pc = "sequential" =>
       board = PendingGrid([board |-> atCall.board, state |-> <<>>], stack[1], 1).board
  /\ (pc = "parallel" /\ Optimized) =>
       \A w \in Workers :
         wtask[w] # 0 =>
           copy[w] = PendingGrid([board |-> atCall.subproblems[wtask[w]].board,
                                  state |-> atCall.subproblems[wtask[w]].state], stack[w], 1)
  /\ pc = "done" => board = atCall.board

CalleeReturnedAndRetracted ==
  /\ pc = "parallel" /\ Optimized /\ board = Half4
  /\ wtask[1] # 0 /\ Len(stack[1]) >= 3
  /\ ~Top(1).placed /\ Top(1).count > 0
\* the empty cells of a board, and the m first of them in row-major order
EmptyCells(b) == {p \in 0..(Len(b) - 1) : b[p + 1] = 0}
FirstEmptyCells(b, m) ==
  {p \in EmptyCells(b) : Cardinality({q \in EmptyCells(b) : q < p}) < m}

\* value v is representable and occurs neither in the row, nor the column,
\* nor the block of position pos of board b
Unoccupied(n, bs, b, pos, v) ==
  LET row == pos \div n
      col == pos % n
      cells == RowCells(n, row) \cup ColCells(n, col)
                 \cup BlockCells(n, bs, blockIdxOf(bs, row, col))
  IN v \in 1..MaxMaskValue /\ \A p \in cells : b[p + 1] # v

\* board sb up to position pos (excluded), board b from pos on
FilledBefore(b, sb, pos) == [q \in 1..Len(b) |-> IF q - 1 < pos THEN sb[q] ELSE b[q]]

\* C15: with depth K on a board with E empty cells, every emitted board is
\* the root board with exactly the first min(K, E) empty cells filled, each
\* with a value the tracker accepted when it was placed; a branch that runs
\* out of accepted values before depth K emits nothing.
EmittedFillFirstEmptyCells ==
  (lastOp.op = "solveParallelOptimized" /\ ~OutOfBounds(N, blockSize))
    => LET K == lastOp.partitionDepth
           E == Cardinality(EmptyCells(board))
           filled == FirstEmptyCells(board, IF K < E THEN K ELSE E)
       IN \A i \in 1..Len(subproblems) :
            LET sb == subproblems[i].board
            IN /\ Len(sb) = Len(board)
               /\ {p \in 0..(Len(sb) - 1) : sb[p + 1] # board[p + 1]} = filled
               /\ \A p \in filled :
                    Unoccupied(N, blockSize, FilledBefore(board, sb, p), p, sb[p + 1])

FourEmittedAtDepthTwo ==
  /\ lastOp.op = "solveParallelOptimized" /\ lastOp.partitionDepth = 2
  /\ N = 4 /\ board = Half4
  /\ Len(subproblems) = 4

\* C16: in every emitted subproblem the cursor startPos lies in 0..N*N and
\* every cell with a flat index below startPos is non-empty, so the scan that
\* solveSubproblem starts at startPos finds the first empty cell of the board.
CursorSkipsNoEmptyCell ==
  (lastOp.op = "solveParallelOptimized" /\ ~OutOfBounds(N, blockSize))
    => \A i \in 1..Len(subproblems) :
         LET sp == subproblems[i]
         IN /\ sp.startPos \in 0..(N * N)
            /\ \A q \in 0..(sp.startPos - 1) : sp.board[q + 1] # 0
            /\ skipFilled(N, sp.board, sp.startPos) = skipFilled(N, sp.board, 0)

CursorPastFilledAndGivenCells ==
  /\ lastOp.op = "solveParallelOptimized" /\ lastOp.partitionDepth = 2
  /\ N = 4 /\ board = Rect4
  /\ Len(subproblems) > 0
  /\ \A i \in 1..Len(subproblems) :
       subproblems[i].startPos > 2 /\ subproblems[i].board[subproblems[i].startPos + 1] # 0

\* value v occurs neither in the row, nor the column, nor the block of pos
Fits(n, bs, b, pos, v) ==
  LET row == pos \div n
      col == pos % n
  IN \A p \in RowCells(n, row) \cup ColCells(n, col)
                \cup BlockCells(n, bs, blockIdxOf(bs, row, col)) : b[p + 1] # v

\* the complete grids without duplicate that extend a valid partial board
RECURSIVE Solutions(_, _, _)
Solutions(n, bs, b) ==
  IF EmptyCells(b) = {} THEN {b}
  ELSE LET pos == CHOOSE p \in EmptyCells(b) : \A q \in EmptyCells(b) : p <= q
       IN UNION {Solutions(n, bs, [b EXCEPT ![pos + 1] = v]) :
                   v \in {x \in 1..n : Fits(n, bs, b, pos, x)}}

\* grid s agrees with board b on every filled cell of b
Extends(s, b) == \A q \in 1..Len(b) : b[q] # 0 => s[q] = b[q]

PartitionOf(n, bs, b, list) ==
  /\ \A i, j \in 1..Len(list) : i # j => list[i].board # list[j].board
  /\ \A s \in Solutions(n, bs, b) :
       Cardinality({i \in 1..Len(list) : Extends(s, list[i].board)}) = 1
  /\ list = <<>> => Solutions(n, bs, b) = {}

\* C17: for every valid partial board and every depth K >= 0 the emitted
\* subproblems partition the solution set: the emitted boards are pairwise
\* distinct, every complete solution of the root board extends exactly one
\* emitted board, and the list is empty only if the root has no solution.
SubproblemsPartitionSolutions ==
  (lastOp.op = "solveParallelOptimized" /\ PerfectSquare(N)
     /\ ValidPartial(N, blockSize, board))
    => PartitionOf(N, blockSize, board, subproblems)

\* the same for the dimensions the bitmask can represent (N <= 31)
SubproblemsPartitionRepresentable ==
  (lastOp.op = "solveParallelOptimized" /\ PerfectSquare(N) /\ N <= MaxMaskValue
     /\ ValidPartial(N, blockSize, board))
    => PartitionOf(N, blockSize, board, subproblems)
====
